---- MODULE Spec2Model ----
(***************************************************************************)
(* Model of the LinkedIn post automation: the content generator's batch    *)
(* pipeline (topic selection, generation with retries, sanitation,         *)
(* duplicate detection, source resolution, footer) as a state machine.     *)
(*                                                                         *)
(* Text is a sequence of atoms.  An atom is one character of the real      *)
(* string, or a short run of characters that the program's patterns only   *)
(* ever treat as a unit ("Source", "https://", a host label).  Every       *)
(* pattern of the source is evaluated on these sequences the way Python's  *)
(* re module evaluates it on the string the atoms spell.                   *)
(***************************************************************************)
EXTENDS Integers, Sequences, FiniteSets, TLC

(***************************************************************************)
(* Characters                                                              *)
(***************************************************************************)
LongWord == "powerelectronicsdesign"
\* the backquote character (the lexer cannot hold it in a string literal)
Backtick == "BACKTICK"

SpaceAtoms == {" ", "\n", "\t"}
DigitAtoms == {"1", "2"}
LetterAtoms == {"a", "c", "d", "n", "A"}
\* \w over a whole atom: every character of the atom is a word character
WordAtoms == LetterAtoms \cup DigitAtoms \cup
             {"Source", "source", "post", "content", LongWord, "mo", "evil", "ieee"}
SchemeAtoms == {"https://", "http://"}
PunctAtoms == {":", ",", "[", "]", "(", ")", "{", "}", "\"", "\\", "*", Backtick}
\* pieces of URLs: host labels and paths
HostAtoms == {"www.", "st.com", "ST.COM", "mo", "evil", ".org", "ieee", "energy.gov",
              "ieeexplore.", "mathworks.com", "sae.org", "/", "/x"}
Atoms == SpaceAtoms \cup WordAtoms \cup SchemeAtoms \cup PunctAtoms \cup HostAtoms

IsSpace(c) == c \in SpaceAtoms
IsDigit(c) == c \in DigitAtoms
NotSpace(c) == ~IsSpace(c)
\* the atom's last character is a word character (for \b)
EndsWord(c) ==
    c \in WordAtoms \cup {"st.com", "ST.COM", ".org", "energy.gov", "mathworks.com", "sae.org", "/x"}

\* number of characters an atom spells (len() counts characters)
AtomLen(c) ==
    CASE c = LongWord -> 22
      [] c \in {"Source", "source"} -> 6
      [] c = "post" -> 4
      [] c = "content" -> 7
      [] c \in {"https://"} -> 8
      [] c \in {"http://"} -> 7
      [] c \in {"www.", "evil", ".org", "ieee"} -> 4
      [] c \in {"st.com", "ST.COM"} -> 6
      [] c = "mo" -> 2
      [] c = "energy.gov" -> 10
      [] c = "ieeexplore." -> 11
      [] c = "mathworks.com" -> 13
      [] c = "sae.org" -> 7
      [] c = "/x" -> 2
      [] OTHER -> 1

\* str.lower() on one atom
LowerAtom(c) ==
    CASE c = "A" -> "a"
      [] c = "Source" -> "source"
      [] c = "ST.COM" -> "st.com"
      [] OTHER -> c

Lower(s) == [i \in 1..Len(s) |-> LowerAtom(s[i])]

SetMax(S) == CHOOSE x \in S : \A y \in S : y <= x
SetMin(S) == CHOOSE x \in S : \A y \in S : x <= y

\* first position j >= i whose atom is not in S (Len(s)+1 when the run reaches the end)
RunEnd(s, i, S) ==
    CHOOSE j \in i..(Len(s) + 1) :
        /\ \A k \in i..(j - 1) : s[k] \in S
        /\ (j = Len(s) + 1 \/ s[j] \notin S)

\* first position j >= i whose atom is in S (Len(s)+1 when there is none)
RunEndNot(s, i, S) ==
    CHOOSE j \in i..(Len(s) + 1) :
        /\ \A k \in i..(j - 1) : s[k] \notin S
        /\ (j = Len(s) + 1 \/ s[j] \in S)

\* first position j >= i with s[j] = c, or 0
IndexOf(s, i, c) ==
    LET j == RunEndNot(s, i, {c}) IN IF j > Len(s) THEN 0 ELSE j

At(s, i) == IF i >= 1 /\ i <= Len(s) THEN s[i] ELSE "<eof>"

\* str.strip(): leading and trailing whitespace removed
Strip(s) ==
    LET a == RunEnd(s, 1, SpaceAtoms)
        ks == {k \in 1..Len(s) : ~IsSpace(s[k])}
    IN  IF ks = {} THEN <<>> ELSE SubSeq(s, a, SetMax(ks))

\* str.rstrip()
RStrip(s) ==
    LET ks == {k \in 1..Len(s) : ~IsSpace(s[k])}
    IN  IF ks = {} THEN <<>> ELSE SubSeq(s, 1, SetMax(ks))

(***************************************************************************)
(* re.sub: ends[i] is the end (exclusive) of the match that starts at i,   *)
(* 0 when the pattern does not match there; reps[i] is the replacement.    *)
(* Matches are taken leftmost first and never overlap.                     *)
(***************************************************************************)
RECURSIVE SubFrom(_, _, _, _)
SubFrom(s, i, ends, reps) ==
    IF i > Len(s) THEN <<>>
    ELSE IF ends[i] # 0 THEN reps[i] \o SubFrom(s, ends[i], ends, reps)
    ELSE <<s[i]>> \o SubFrom(s, i + 1, ends, reps)

\* re.sub(pattern, "", s) for the pattern whose matches end at ends
ReSubDelete(s, ends) == SubFrom(s, 1, ends, [i \in 1..Len(s) |-> <<>>])

\* str.replace(a + b, r) for a two-character pattern
ReplacePair(s, a, b, r) ==
    SubFrom(s, 1,
            [i \in 1..Len(s) |-> IF s[i] = a /\ At(s, i + 1) = b THEN i + 2 ELSE 0],
            [i \in 1..Len(s) |-> <<r>>])

(***************************************************************************)
(* The patterns of _clean_content.  Each Match operator gives the end      *)
(* (exclusive) of the match starting at position i, or 0.                  *)
(***************************************************************************)
\* the tail (?:\s*,\s*\d+)*\s*\] of a bracketed citation, from position k
RECURSIVE CiteTail(_, _)
CiteTail(s, k) ==
    LET m == RunEnd(s, k, SpaceAtoms) IN
    IF At(s, m) = "]" THEN m + 1
    ELSE IF At(s, m) = "," THEN
        LET n == RunEnd(s, m + 1, SpaceAtoms)
            k2 == RunEnd(s, n, DigitAtoms)
        IN  IF k2 > n THEN CiteTail(s, k2) ELSE 0
    ELSE 0

\* \[\s*\d+(?:\s*,\s*\d+)*\s*\]
MatchBracketCitation(s, i) ==
    IF s[i] # "[" THEN 0
    ELSE LET j == RunEnd(s, i + 1, SpaceAtoms)
             k == RunEnd(s, j, DigitAtoms)
         IN  IF k > j THEN CiteTail(s, k) ELSE 0

\* \(\s*\d+\s*\)
MatchParenCitation(s, i) ==
    IF s[i] # "(" THEN 0
    ELSE LET j == RunEnd(s, i + 1, SpaceAtoms)
             k == RunEnd(s, j, DigitAtoms)
             m == RunEnd(s, k, SpaceAtoms)
         IN  IF k > j /\ At(s, m) = ")" THEN m + 1 ELSE 0

\* https?://\S+
MatchUrl(s, i) ==
    IF s[i] \notin SchemeAtoms THEN 0
    ELSE LET e == RunEndNot(s, i + 1, SpaceAtoms) IN IF e > i + 1 THEN e ELSE 0

\* (?i)\bSource\s*:\s*https?://\S+
MatchSourceLine(s, i) ==
    IF LowerAtom(s[i]) # "source" \/ EndsWord(At(s, i - 1)) THEN 0
    ELSE LET j == RunEnd(s, i + 1, SpaceAtoms) IN
         IF At(s, j) # ":" THEN 0
         ELSE LET k == RunEnd(s, j + 1, SpaceAtoms) IN
              IF k > Len(s) THEN 0 ELSE MatchUrl(s, k)

\* "[^"]*":\s*"[^"]*"
MatchJsonPair(s, i) ==
    IF s[i] # "\"" THEN 0
    ELSE LET j == IndexOf(s, i + 1, "\"") IN
         IF j = 0 \/ At(s, j + 1) # ":" THEN 0
         ELSE LET k == RunEnd(s, j + 2, SpaceAtoms) IN
              IF At(s, k) # "\"" THEN 0
              ELSE LET e == IndexOf(s, k + 1, "\"") IN IF e = 0 THEN 0 ELSE e + 1

\* \{[^}]*\}
MatchBraces(s, i) ==
    IF s[i] # "{" THEN 0
    ELSE LET j == IndexOf(s, i + 1, "}") IN IF j = 0 THEN 0 ELSE j + 1

\* m{1,3}([^m]+)m{1,3} for a marker character m: [lead end, group end, match end]
\* (a run of more than three markers cannot open a match: after at most three
\* of them the group would have to start with a marker)
EmphasisAt(s, i, m) ==
    IF s[i] # m THEN <<0, 0, 0>>
    ELSE LET r == RunEnd(s, i, {m}) IN
         IF r - i > 3 \/ r > Len(s) THEN <<0, 0, 0>>
         ELSE LET g == RunEndNot(s, r, {m}) IN
              IF g > Len(s) THEN <<0, 0, 0>>
              ELSE LET t == RunEnd(s, g, {m})
                       e == IF t - g > 3 THEN g + 3 ELSE t
                   IN  <<r, g, e>>

\* re.sub(r"m{1,3}([^m]+)m{1,3}", r"\1", s)
StripEmphasis(s, m) ==
    SubFrom(s, 1,
            [i \in 1..Len(s) |-> EmphasisAt(s, i, m)[3]],
            [i \in 1..Len(s) |-> LET x == EmphasisAt(s, i, m)
                                 IN  IF x[3] = 0 THEN <<>> ELSE SubSeq(s, x[1], x[2] - 1)])

\* ```
MatchFence(s, i) ==
    IF s[i] = Backtick /\ At(s, i + 1) = Backtick /\ At(s, i + 2) = Backtick
    THEN i + 3 ELSE 0

\* re.sub(r'\n{3,}', '\n\n', s)
CollapseNewlines(s) ==
    SubFrom(s, 1,
            [i \in 1..Len(s) |->
                IF s[i] # "\n" THEN 0
                ELSE LET e == RunEnd(s, i, {"\n"})
                     IN  IF e - i >= 3 THEN e ELSE 0],
            [i \in 1..Len(s) |-> <<"\n", "\n">>])

\* re.sub(r'[ \t]{2,}', ' ', s)
CollapseBlanks(s) ==
    SubFrom(s, 1,
            [i \in 1..Len(s) |->
                IF s[i] \notin {" ", "\t"} THEN 0
                ELSE LET e == RunEnd(s, i, {" ", "\t"})
                     IN  IF e - i >= 2 THEN e ELSE 0],
            [i \in 1..Len(s) |-> <<" ">>])

\* the substitutions of _clean_content in the order the code applies them
CleanSteps ==
    <<"bracket citations", "paren citations", "source lines", "urls", "json pairs",
      "braces", "escaped newlines", "escaped quotes", "escaped backslashes",
      "asterisks", "backticks", "fences", "newlines", "blanks", "strip">>

CleanStep(step, s) ==
    CASE step = "bracket citations" -> ReSubDelete(s, [i \in 1..Len(s) |-> MatchBracketCitation(s, i)])
      [] step = "paren citations" -> ReSubDelete(s, [i \in 1..Len(s) |-> MatchParenCitation(s, i)])
      [] step = "source lines" -> ReSubDelete(s, [i \in 1..Len(s) |-> MatchSourceLine(s, i)])
      [] step = "urls" -> ReSubDelete(s, [i \in 1..Len(s) |-> MatchUrl(s, i)])
      [] step = "json pairs" -> ReSubDelete(s, [i \in 1..Len(s) |-> MatchJsonPair(s, i)])
      [] step = "braces" -> ReSubDelete(s, [i \in 1..Len(s) |-> MatchBraces(s, i)])
      [] step = "escaped newlines" -> ReplacePair(s, "\\", "n", "\n")
      [] step = "escaped quotes" -> ReplacePair(s, "\\", "\"", "\"")
      [] step = "escaped backslashes" -> ReplacePair(s, "\\", "\\", "\\")
      [] step = "asterisks" -> StripEmphasis(s, "*")
      [] step = "backticks" -> StripEmphasis(s, Backtick)
      [] step = "fences" -> ReSubDelete(s, [i \in 1..Len(s) |-> MatchFence(s, i)])
      [] step = "newlines" -> CollapseNewlines(s)
      [] step = "blanks" -> CollapseBlanks(s)
      [] step = "strip" -> Strip(s)

\* the steps from the k-th on, each applied to the value the one before produced
RECURSIVE CleanFrom(_, _)
CleanFrom(k, s) ==
    IF k > Len(CleanSteps) THEN s
    ELSE CHOOSE r \in {CleanFrom(k + 1, t) : t \in {CleanStep(CleanSteps[k], s)}} : TRUE

_clean_content(content) ==
    IF content = <<>> THEN <<>>
    ELSE CleanFrom(1, content)

(***************************************************************************)
(* json.loads, for the texts the atoms can spell: objects, arrays, strings *)
(* and numbers.  A parse result is [ok, next, kind, str, members]; only    *)
(* string values and an object's members are kept.                         *)
(***************************************************************************)
JsonFail == [ok |-> FALSE, next |-> 0, kind |-> "none", str |-> <<>>, members |-> <<>>]
JsonOk(n, k, v, ms) == [ok |-> TRUE, next |-> n, kind |-> k, str |-> v, members |-> ms]

\* the body of a string literal from position j, decoded into acc
RECURSIVE JsonStringBody(_, _, _)
JsonStringBody(s, j, acc) ==
    IF j > Len(s) THEN JsonFail
    ELSE IF s[j] = "\"" THEN JsonOk(j + 1, "str", acc, <<>>)
    ELSE IF s[j] = "\\" THEN
        LET e == At(s, j + 1) IN
        IF e \in {"\"", "\\", "/", "/x"} THEN JsonStringBody(s, j + 2, Append(acc, e))
        ELSE IF e = "n" THEN JsonStringBody(s, j + 2, Append(acc, "\n"))
        ELSE JsonFail
    ELSE IF s[j] \in {"\n", "\t"} THEN JsonFail
    ELSE JsonStringBody(s, j + 1, Append(acc, s[j]))

RECURSIVE JsonValue(_, _)
RECURSIVE JsonMembers(_, _, _)
RECURSIVE JsonElements(_, _)

\* members of an object from position j (at a key), collected into acc
JsonMembers(s, j, acc) ==
    IF At(s, j) # "\"" THEN JsonFail
    ELSE LET k == JsonStringBody(s, j + 1, <<>>) IN
         IF ~k.ok THEN JsonFail
         ELSE LET c == RunEnd(s, k.next, SpaceAtoms) IN
              IF At(s, c) # ":" THEN JsonFail
              ELSE LET v == JsonValue(s, RunEnd(s, c + 1, SpaceAtoms)) IN
                   IF ~v.ok THEN JsonFail
                   ELSE LET d == RunEnd(s, v.next, SpaceAtoms)
                            acc2 == Append(acc, [key |-> k.str, kind |-> v.kind, str |-> v.str])
                        IN  IF At(s, d) = "}" THEN JsonOk(d + 1, "object", <<>>, acc2)
                            ELSE IF At(s, d) = ","
                                 THEN JsonMembers(s, RunEnd(s, d + 1, SpaceAtoms), acc2)
                            ELSE JsonFail

\* elements of an array from position j (at a value)
JsonElements(s, j) ==
    LET v == JsonValue(s, j) IN
    IF ~v.ok THEN JsonFail
    ELSE LET d == RunEnd(s, v.next, SpaceAtoms) IN
         IF At(s, d) = "]" THEN JsonOk(d + 1, "array", <<>>, <<>>)
         ELSE IF At(s, d) = "," THEN JsonElements(s, RunEnd(s, d + 1, SpaceAtoms))
         ELSE JsonFail

JsonValue(s, i) ==
    LET c == At(s, i) IN
    IF c = "\"" THEN JsonStringBody(s, i + 1, <<>>)
    ELSE IF IsDigit(c) THEN JsonOk(RunEnd(s, i, DigitAtoms), "number", <<>>, <<>>)
    ELSE IF c = "{" THEN
        LET j == RunEnd(s, i + 1, SpaceAtoms) IN
        IF At(s, j) = "}" THEN JsonOk(j + 1, "object", <<>>, <<>>)
        ELSE JsonMembers(s, j, <<>>)
    ELSE IF c = "[" THEN
        LET j == RunEnd(s, i + 1, SpaceAtoms) IN
        IF At(s, j) = "]" THEN JsonOk(j + 1, "array", <<>>, <<>>)
        ELSE JsonElements(s, j)
    ELSE JsonFail

\* json.loads(t): the whole text is one value
JsonLoads(t) ==
    LET v == JsonValue(t, RunEnd(t, 1, SpaceAtoms)) IN
    IF v.ok /\ RunEnd(t, v.next, SpaceAtoms) > Len(t) THEN v ELSE JsonFail

RECURSIVE StrLen(_)
StrLen(s) == IF s = <<>> THEN 0 ELSE AtomLen(Head(s)) + StrLen(Tail(s))

\* data.get(key): the last member with that key (a dict keeps the last)
JsonGet(data, key) ==
    LET ks == {k \in 1..Len(data.members) : data.members[k].key = <<key>>}
    IN  IF ks = {} THEN [key |-> <<key>>, kind |-> "none", str |-> <<>>]
        ELSE data.members[SetMax(ks)]

JsonKeys == <<"post", "content", "text", "body">>
MinFieldLen == 20

\* the first of the keys holding a string longer than 20 characters
JsonField(data) ==
    LET good == {k \in 1..Len(JsonKeys) :
                    /\ JsonGet(data, JsonKeys[k]).kind = "str"
                    /\ StrLen(JsonGet(data, JsonKeys[k]).str) > MinFieldLen}
    IN  IF good = {} THEN [found |-> FALSE, str |-> <<>>]
        ELSE [found |-> TRUE, str |-> JsonGet(data, JsonKeys[SetMin(good)]).str]

\* re.search(r"```(?:\w+)?\n(.*?)\n```", t, re.DOTALL) opening at i: [start, end]
\* of group 1 (end exclusive), <<0, 0>> when there is no match opening at i
FencedAt(t, i) ==
    IF MatchFence(t, i) = 0 THEN <<0, 0>>
    ELSE LET w == RunEnd(t, i + 3, WordAtoms) IN
         IF At(t, w) # "\n" THEN <<0, 0>>
         ELSE LET qs == {q \in (w + 1)..Len(t) : t[q] = "\n" /\ MatchFence(t, q + 1) # 0}
              IN  IF qs = {} THEN <<0, 0>> ELSE <<w + 1, SetMin(qs)>>

\* the body of the first fenced block of t0, or t0 itself
Unfence(t0) ==
    LET opens == {i \in 1..Len(t0) : FencedAt(t0, i)[1] # 0}
    IN  IF opens = {} THEN t0
        ELSE LET g == FencedAt(t0, SetMin(opens))
             IN  Strip(SubSeq(t0, g[1], g[2] - 1))

\* the post field of a JSON object, or t1 itself
Unwrap(t1) ==
    IF t1 # <<>> /\ Head(t1) = "{" /\ t1[Len(t1)] = "}"
    THEN CHOOSE r \in {IF data.ok /\ JsonField(data).found THEN JsonField(data).str ELSE t1 :
                          data \in {JsonLoads(t1)}} : TRUE
    ELSE t1

_ensure_clean_content(content) ==
    IF content = <<>> THEN <<>>
    ELSE CHOOSE r \in {_clean_content(t2) :
                          t2 \in {Unwrap(t1) : t1 \in {Unfence(t0) : t0 \in {Strip(content)}}}} : TRUE

(***************************************************************************)
(* Deduplicator                                                            *)
(***************************************************************************)
\* set(text.split()): the maximal runs of non-whitespace
Split(s) ==
    {SubSeq(s, i, RunEndNot(s, i, SpaceAtoms) - 1) :
        i \in {k \in 1..Len(s) : NotSpace(s[k]) /\ (k = 1 \/ IsSpace(s[k - 1]))}}

\* set(content.lower().split())
Words(content) == Split(Lower(content))

\* similarity > 0.7 for similarity = inter / union computed in floating point:
\* the quotient of two small integers exceeds the double 0.7 exactly when
\* 10 * inter > 7 * union
SimilarityNum == 7
SimilarityDen == 10
\* the comparison with the threshold written 0.9
AboveThresholdLoose(inter, union) == 10 * inter > 9 * union

AboveThreshold(inter, union) == SimilarityDen * inter > SimilarityNum * union

\* the loop of _is_duplicate_content from the k-th existing post on:
\* "True", "False", or "ZeroDivisionError" when a union is empty
RECURSIVE DuplicateFrom(_, _, _)
DuplicateFrom(new_words, existing_posts, k) ==
    IF k > Len(existing_posts) THEN "False"
    ELSE LET existing_words == Words(existing_posts[k].content)
             inter == Cardinality(new_words \cap existing_words)
             union == Cardinality(new_words \cup existing_words)
         IN  IF union = 0 THEN "ZeroDivisionError"
             ELSE IF AboveThreshold(inter, union) THEN "True"
             ELSE DuplicateFrom(new_words, existing_posts, k + 1)

_is_duplicate_content(new_content, existing_posts) ==
    DuplicateFrom(Words(new_content), existing_posts, 1)

(***************************************************************************)
(* Source resolver                                                         *)
(***************************************************************************)
None == <<>>

\* "Source:" in content
HasSourceMarker(content) ==
    \E i \in 1..Len(content) : content[i] = "Source" /\ At(content, i + 1) = ":"

_append_source_footer(content, source_url) ==
    IF source_url = None THEN content
    ELSE IF HasSourceMarker(content) THEN content
    ELSE RStrip(content) \o <<"\n", "\n", "Source", ":", " ">> \o source_url

\* the entries of TRUSTED_DOMAINS the host atoms can spell
TRUSTED_DOMAINS ==
    {<<"st.com">>, <<"ieee", ".org">>, <<"ieeexplore.", "ieee", ".org">>, <<"energy.gov">>,
     <<"mathworks.com">>, <<"sae.org">>}

\* urlparse(url).netloc: what follows the scheme's "//", up to the path
Netloc(url) ==
    IF url = <<>> \/ Head(url) \notin SchemeAtoms THEN <<>>
    ELSE LET e == RunEndNot(url, 2, {"/", "/x"}) IN SubSeq(url, 2, e - 1)

\* trusted in domain
Contains(domain, trusted) ==
    \E i \in 1..Len(domain) :
        i + Len(trusted) - 1 <= Len(domain) /\ SubSeq(domain, i, i + Len(trusted) - 1) = trusted

_is_credible_source(url) ==
    IF url = None THEN FALSE
    ELSE LET domain == SelectSeq(Lower(Netloc(url)), LAMBDA c : c # "www.")
         IN  \E trusted \in TRUSTED_DOMAINS : Contains(domain, trusted)

(***************************************************************************)
(* Topics.  A topic string is modelled by a number: 1..20 are the entries  *)
(* of TOPIC_PILLARS in order, larger numbers are other strings a trending  *)
(* response can carry.  TopicKeywords gives the keyword groups of          *)
(* _get_fallback_source whose keywords occur in the lower-cased topic.     *)
(***************************************************************************)
NumPillars == 20
TOPIC_PILLARS == [i \in 1..NumPillars |-> i]

TopicKeywords(topic) ==
    CASE topic \in {5, 17, 20} -> {"energy"}
      [] topic = 9 -> {"energy", "control"}
      [] topic \in {13, 14} -> {"energy", "power"}
      [] topic \in {1, 4, 8, 11, 15, 16, 19} -> {"power"}
      [] topic \in {2, 7, 10, 12} -> {"control"}
      [] topic = 21 -> {"energy"}
      [] topic = 22 -> {"control"}
      [] OTHER -> {}

EnergyUrl == <<"https://", "www.", "energy.gov", "/x">>
IeeeUrl == <<"https://", "ieeexplore.", "ieee", ".org", "/x">>
MathworksUrl == <<"https://", "www.", "mathworks.com", "/x">>
SaeUrl == <<"https://", "www.", "sae.org", "/x">>

_get_fallback_source(topic) ==
    IF "energy" \in TopicKeywords(topic) THEN EnergyUrl
    ELSE IF "power" \in TopicKeywords(topic) THEN IeeeUrl
    ELSE IF "control" \in TopicKeywords(topic) THEN MathworksUrl
    ELSE SaeUrl

\* random.seed(w); random.shuffle(list(range(1, 21))) in CPython 3, for w = 1..53
ShuffleTable == <<
    <<12, 6, 18, 20, 10, 1, 17, 2, 16, 7, 11, 14, 15, 13, 8, 4, 9, 3, 19, 5>>,
    <<8, 7, 18, 9, 20, 16, 14, 1, 4, 10, 15, 5, 11, 13, 17, 6, 12, 19, 3, 2>>,
    <<9, 4, 7, 6, 16, 17, 3, 13, 1, 2, 14, 11, 20, 10, 15, 12, 5, 18, 19, 8>>,
    <<18, 20, 11, 15, 6, 19, 17, 12, 5, 9, 7, 1, 14, 2, 3, 16, 13, 4, 10, 8>>,
    <<5, 10, 7, 6, 15, 18, 19, 2, 3, 16, 11, 4, 13, 8, 14, 1, 17, 12, 9, 20>>,
    <<5, 13, 7, 17, 18, 4, 14, 15, 12, 6, 8, 10, 11, 20, 1, 2, 9, 16, 3, 19>>,
    <<18, 16, 12, 19, 8, 7, 20, 4, 15, 1, 10, 6, 17, 9, 14, 3, 2, 13, 5, 11>>,
    <<20, 15, 18, 17, 10, 14, 6, 16, 11, 9, 4, 3, 2, 1, 19, 7, 5, 13, 12, 8>>,
    <<3, 20, 10, 4, 13, 7, 17, 19, 2, 8, 18, 16, 1, 11, 14, 6, 5, 9, 12, 15>>,
    <<15, 12, 6, 7, 20, 9, 10, 13, 17, 3, 11, 5, 18, 8, 4, 1, 16, 14, 2, 19>>,
    <<5, 16, 6, 1, 12, 14, 4, 2, 17, 10, 11, 8, 9, 13, 3, 7, 19, 20, 18, 15>>,
    <<3, 10, 15, 19, 2, 11, 13, 14, 4, 18, 20, 8, 6, 1, 7, 5, 12, 17, 9, 16>>,
    <<20, 7, 16, 17, 1, 19, 18, 15, 2, 13, 3, 12, 11, 4, 14, 5, 8, 6, 10, 9>>,
    <<6, 10, 16, 13, 3, 1, 20, 7, 14, 15, 18, 11, 2, 12, 5, 19, 9, 8, 17, 4>>,
    <<20, 5, 18, 9, 8, 10, 12, 14, 16, 3, 11, 13, 19, 4, 15, 6, 2, 17, 1, 7>>,
    <<2, 20, 18, 17, 6, 3, 13, 9, 15, 5, 11, 7, 1, 8, 4, 14, 10, 19, 16, 12>>,
    <<8, 7, 16, 15, 6, 4, 11, 1, 2, 5, 9, 19, 20, 13, 3, 18, 12, 10, 14, 17>>,
    <<9, 18, 20, 1, 7, 2, 13, 10, 5, 12, 3, 14, 17, 16, 19, 8, 11, 15, 4, 6>>,
    <<14, 8, 1, 13, 15, 18, 11, 20, 12, 3, 10, 5, 9, 6, 16, 7, 19, 4, 17, 2>>,
    <<10, 13, 15, 17, 19, 18, 20, 8, 16, 3, 12, 2, 14, 7, 1, 6, 11, 4, 9, 5>>,
    <<5, 2, 12, 17, 20, 1, 7, 15, 11, 3, 9, 8, 13, 4, 18, 16, 10, 19, 14, 6>>,
    <<7, 9, 13, 10, 19, 3, 18, 20, 4, 14, 16, 11, 17, 2, 12, 6, 15, 1, 8, 5>>,
    <<15, 12, 13, 16, 11, 17, 2, 18, 8, 5, 4, 19, 6, 9, 7, 14, 20, 1, 3, 10>>,
    <<12, 16, 10, 9, 8, 17, 15, 1, 5, 14, 2, 20, 11, 3, 4, 18, 7, 6, 19, 13>>,
    <<6, 4, 3, 8, 9, 11, 17, 2, 18, 12, 15, 5, 20, 14, 19, 16, 10, 7, 1, 13>>,
    <<16, 12, 18, 19, 17, 4, 6, 3, 9, 10, 11, 1, 8, 15, 13, 5, 2, 14, 20, 7>>,
    <<18, 11, 8, 1, 4, 13, 15, 20, 17, 12, 14, 6, 19, 5, 2, 3, 7, 10, 9, 16>>,
    <<10, 9, 1, 17, 19, 13, 2, 12, 15, 14, 20, 7, 16, 11, 3, 8, 6, 18, 5, 4>>,
    <<4, 5, 20, 17, 16, 15, 14, 8, 2, 11, 1, 13, 7, 6, 9, 19, 10, 12, 3, 18>>,
    <<12, 6, 4, 13, 16, 19, 5, 15, 8, 2, 3, 11, 14, 17, 20, 9, 7, 1, 10, 18>>,
    <<8, 10, 19, 12, 7, 14, 6, 15, 17, 18, 9, 2, 3, 20, 11, 5, 13, 4, 16, 1>>,
    <<20, 15, 11, 4, 18, 13, 19, 17, 9, 6, 2, 14, 12, 1, 16, 8, 10, 5, 7, 3>>,
    <<12, 1, 2, 7, 4, 5, 18, 20, 13, 10, 15, 3, 14, 17, 11, 16, 9, 8, 6, 19>>,
    <<4, 3, 9, 16, 20, 11, 10, 19, 13, 5, 14, 2, 6, 7, 15, 18, 8, 1, 12, 17>>,
    <<3, 4, 2, 17, 12, 8, 14, 6, 13, 9, 1, 10, 15, 7, 16, 20, 19, 5, 11, 18>>,
    <<13, 19, 8, 15, 14, 12, 17, 6, 7, 5, 4, 16, 20, 9, 18, 3, 10, 1, 2, 11>>,
    <<14, 19, 1, 16, 10, 4, 6, 7, 5, 15, 11, 18, 13, 9, 8, 12, 2, 17, 3, 20>>,
    <<15, 18, 2, 5, 7, 19, 11, 9, 13, 17, 10, 1, 6, 8, 16, 12, 3, 4, 20, 14>>,
    <<18, 15, 2, 19, 8, 11, 14, 3, 6, 5, 17, 10, 12, 16, 4, 20, 1, 13, 9, 7>>,
    <<7, 10, 16, 18, 1, 12, 9, 20, 6, 3, 4, 13, 14, 11, 5, 8, 2, 17, 19, 15>>,
    <<3, 19, 15, 2, 18, 14, 17, 4, 1, 7, 16, 9, 5, 12, 10, 20, 6, 8, 11, 13>>,
    <<20, 6, 15, 5, 10, 14, 16, 19, 7, 13, 18, 11, 2, 12, 3, 17, 8, 9, 1, 4>>,
    <<9, 14, 6, 3, 7, 4, 18, 1, 17, 19, 8, 20, 13, 16, 11, 12, 15, 5, 10, 2>>,
    <<9, 15, 16, 11, 3, 13, 8, 10, 12, 2, 20, 1, 5, 19, 7, 6, 4, 18, 17, 14>>,
    <<17, 4, 11, 19, 18, 10, 7, 15, 12, 13, 8, 2, 1, 6, 5, 3, 20, 16, 14, 9>>,
    <<14, 16, 4, 20, 15, 17, 7, 11, 6, 18, 12, 1, 19, 9, 10, 5, 8, 2, 13, 3>>,
    <<2, 6, 17, 4, 19, 18, 8, 16, 20, 1, 10, 13, 7, 9, 5, 11, 15, 14, 3, 12>>,
    <<19, 1, 9, 14, 6, 20, 17, 4, 8, 2, 15, 3, 16, 13, 12, 7, 10, 5, 11, 18>>,
    <<15, 7, 8, 2, 10, 6, 17, 20, 5, 19, 16, 1, 18, 9, 13, 11, 4, 14, 12, 3>>,
    <<10, 5, 7, 11, 1, 3, 17, 15, 18, 4, 14, 19, 2, 6, 13, 20, 8, 12, 9, 16>>,
    <<1, 11, 2, 15, 3, 10, 12, 19, 16, 13, 7, 5, 9, 4, 14, 20, 6, 18, 17, 8>>,
    <<10, 5, 19, 4, 11, 14, 20, 8, 6, 18, 15, 13, 3, 1, 7, 12, 16, 17, 2, 9>>,
    <<5, 13, 4, 19, 2, 14, 11, 3, 10, 1, 8, 6, 9, 12, 18, 16, 17, 15, 7, 20>>
>>

\* the seed taken from isocalendar()[2], the day of the week
WeekSeedFromWeekday(batch_time) == batch_time.weekday

\* batch_time.isocalendar()[1]
WeekSeed(batch_time) == batch_time.week

\* random.seed(week_seed); shuffled_core = TOPIC_PILLARS[:]; random.shuffle(shuffled_core)
ShuffledCore(week_seed) == [k \in 1..NumPillars |-> TOPIC_PILLARS[ShuffleTable[week_seed][k]]]

\* s[:n]
Take(s, n) == SubSeq(s, 1, IF Len(s) < n THEN Len(s) ELSE n)

MinTopicLen == 10
MaxTrending == 5
TrendingShare == 3
CoreShare == 2
BatchSize == 5

\* the lines of a trending response that are kept, numbering and bullets removed;
\* a response that failed (an exception) gives the empty list
_get_trending_topics(response) ==
    IF response.failed THEN <<>>
    ELSE LET kept == SelectSeq(response.lines, LAMBDA l : l.len > MinTopicLen)
         IN  Take([k \in 1..Len(kept) |-> kept[k].topic], MaxTrending)

_weekly_topics(batch_time, response) ==
    LET trending == _get_trending_topics(response)
        shuffled_core == ShuffledCore(WeekSeed(batch_time))
        final_topics == IF trending # <<>>
                        THEN Take(trending, TrendingShare) \o Take(shuffled_core, CoreShare)
                        ELSE Take(shuffled_core, BatchSize)
    IN  Take(final_topics, BatchSize)

(***************************************************************************)
(* The generation call.  An outcome of the HTTP exchange is a failure (an  *)
(* exception anywhere in the try block) or a response with its text, its   *)
(* citations and its images.                                               *)
(***************************************************************************)
BadCitation == <<"{", "}">>

\* FirstCredible without the credibility test: the first citation is taken
FirstCitation(citations, k) ==
    IF k > Len(citations) THEN [raised |-> FALSE, url |-> None]
    ELSE IF citations[k] = BadCitation THEN [raised |-> TRUE, url |-> None]
    ELSE [raised |-> FALSE, url |-> citations[k]]

\* the citations before the first credible one; a citation without a "url"
\* key among them raises KeyError
RECURSIVE FirstCredible(_, _)
FirstCredible(citations, k) ==
    IF k > Len(citations) THEN [raised |-> FALSE, url |-> None]
    ELSE IF citations[k] = BadCitation THEN [raised |-> TRUE, url |-> None]
    ELSE IF _is_credible_source(citations[k]) THEN [raised |-> FALSE, url |-> citations[k]]
    ELSE FirstCredible(citations, k + 1)

\* the first image that carries a URL
FirstImage(images) ==
    LET ks == {k \in 1..Len(images) : images[k] # None}
    IN  IF ks = {} THEN None ELSE images[SetMin(ks)]

_api_post(topic, outcome) ==
    IF outcome.failed \/ FirstCredible(outcome.citations, 1).raised
    THEN [content |-> None, source_url |-> None, image_url |-> None]
    ELSE [content |-> Strip(outcome.raw),
          source_url |-> FirstCredible(outcome.citations, 1).url,
          image_url |-> FirstImage(outcome.images)]

(***************************************************************************)
(* State                                                                   *)
(***************************************************************************)
VARIABLES
    pc,              \* position in generate_posts: "start", "loop", "returned", "raised"
    existing_posts,  \* the argument of generate_posts: records with a content field
    batch_time,      \* datetime.now() at the start of the run
    topics,          \* the topics of the batch
    topic_idx,       \* position of the for loop in topics
    retry_count,     \* retry_count of the current topic
    results,         \* the posts accepted so far
    cleaned,         \* history: the sanitized text each accepted post was checked with
    calls,           \* history: _api_post calls made for the current topic
    total_calls,     \* history: _api_post calls made in the run
    selections,      \* history of _weekly_topics calls (topic selection alone)
    dup_new,         \* _is_duplicate_content alone: the candidate
    dup_existing,    \* _is_duplicate_content alone: the existing posts
    dup_result,      \* _is_duplicate_content alone: "none" before the call, then its outcome
    slept,           \* history: the last iteration of the while loop reached time.sleep
    origin,          \* history: the position in topics each accepted post was generated for
    entry,           \* a generation run: "route", "scheduler", "none" for a bare call
    stored,          \* a generation run: the recent posts in the database
    saved,           \* a generation run: the posts the run committed
    san_fn,          \* the sanitizer alone: the function applied
    san_input,       \* the sanitizer alone: its input
    san_output,      \* the sanitizer alone: the output of the first pass
    san_again,       \* the sanitizer alone: the output of a pass over san_output
    san_pass,        \* the sanitizer alone: passes made
    collection,      \* approve_post alone: the stored documents
    requests         \* approve_post alone: the state of each call in flight

gen_vars == <<pc, existing_posts, batch_time, topics, topic_idx, retry_count, results,
              cleaned, calls, total_calls, slept, origin>>
topic_vars == <<selections>>
dup_vars == <<dup_new, dup_existing, dup_result>>
run_vars == <<entry, stored, saved>>
san_vars == <<san_fn, san_input, san_output, san_again, san_pass>>
db_vars == <<collection, requests>>
vars == <<gen_vars, topic_vars, dup_vars, run_vars, san_vars, db_vars>>

(***************************************************************************)
(* Inputs                                                                  *)
(***************************************************************************)
MaxWeek == 2
MaxExisting == 1
MaxLines == 3
MaxDupExisting == 2

\* a batch time is an ISO week and a day of that week (Monday, Friday)
Weekdays == {1, 5}
BatchTimes == [week : 1..MaxWeek, weekday : Weekdays]

\* texts of existing posts: a stored post with its footer, a short stored post,
\* a post whose content is empty
StoredPost == <<"a", " ", "c", " ", "d", " ", "n", " ", "1", "\n", "\n",
                "Source", ":", " ", "https://", "www.", "st.com", "/x">>
\* the stored posts, oldest first; the recent posts handed to generate_posts
\* are a window of them
History ==
    <<[content |-> StoredPost],
      [content |-> <<>>],
      [content |-> <<"a", " ", "c", " ", "d", " ", "n">>]>>

ExistingChoices ==
    {SubSeq(History, w[1], w[1] + w[2] - 1) :
        w \in {x \in (1..Len(History)) \X (0..MaxExisting) : x[1] + x[2] - 1 <= Len(History)}}

\* trending responses: a failure, a response of one line, and a response whose
\* first line is too short to be kept
TrendingLine(t, n) == [topic |-> t, len |-> n]
TrendingResponses ==
    {[failed |-> TRUE, lines |-> <<>>],
     [failed |-> FALSE, lines |-> <<TrendingLine(21, 30)>>],
     [failed |-> FALSE, lines |-> <<TrendingLine(23, 8), TrendingLine(22, 25)>>]}

\* outcomes of one HTTP exchange of _api_post
EvilUrl == <<"https://", "evil", ".org", "/x">>
StUrl == <<"https://", "www.", "st.com", "/x">>
Image == <<"/x">>
Response(raw, citations, images) ==
    [failed |-> FALSE, raw |-> raw, citations |-> citations, images |-> images]
Outcomes ==
    {[failed |-> TRUE, raw |-> <<>>, citations |-> <<>>, images |-> <<>>],
     Response(<<" ", "\n">>, <<StUrl>>, <<>>),
     Response(<<"a", " ", "c">>, <<BadCitation>>, <<>>),
     Response(<<"*", "*", "a", "*", "*", " ", "c", " ", "d", " ", "[", "2", "]">>,
              <<EvilUrl, StUrl>>, <<None, Image>>),
     Response(<<"[", "1", "]">>, <<>>, <<>>),
     Response(<<"Source", ":", " ", "a", "\n", "c">>, <<>>, <<Image>>)}

\* _ensure_clean_content on every text a generation call can return, evaluated
\* once: Sanitized[c] = _ensure_clean_content(c)
Sanitized ==
    [c \in {_api_post(0, o).content : o \in Outcomes} |-> _ensure_clean_content(c)]

(***************************************************************************)
(* generate_posts                                                          *)
(***************************************************************************)
max_retries == 3

\* the parts of the state an operation taken alone does not use
RunIdle == entry = "none" /\ stored = <<>> /\ saved = <<>>
SanIdle ==
    /\ san_fn = "none"
    /\ san_input = <<>>
    /\ san_output = <<>>
    /\ san_again = <<>>
    /\ san_pass = 0
DbIdle == collection = {} /\ requests = <<>>

Init ==
    /\ pc = "start"
    /\ existing_posts \in ExistingChoices
    /\ batch_time = [week |-> 0, weekday |-> 0]
    /\ topics = <<>>
    /\ topic_idx = 0
    /\ retry_count = 0
    /\ results = <<>>
    /\ cleaned = <<>>
    /\ calls = 0
    /\ total_calls = 0
    /\ slept = FALSE
    /\ origin = <<>>
    /\ selections = <<>>
    /\ dup_new = <<>>
    /\ dup_existing = <<>>
    /\ dup_result = "none"
    /\ RunIdle
    /\ SanIdle
    /\ DbIdle

\* lines 116-120: the batch time, the topics, the empty result list
generate_posts_begin ==
    /\ pc = "start"
    /\ \E bt \in {b \in BatchTimes : b.weekday = 1}, response \in TrendingResponses :
        /\ batch_time' = bt
        /\ topics' = _weekly_topics(bt, response)
    /\ pc' = "loop"
    /\ topic_idx' = 1
    /\ retry_count' = 0
    /\ results' = <<>>
    /\ slept' = FALSE
    /\ origin' = <<>>
    /\ UNCHANGED <<existing_posts, cleaned, calls, total_calls, topic_vars, dup_vars, run_vars, san_vars, db_vars>>

InLoop == pc = "loop" /\ topic_idx <= Len(topics) /\ retry_count < max_retries

\* AfterRetry with the loop test written retry_count <= max_retries
AfterRetryOffByOne(r) ==
    IF r <= max_retries
    THEN /\ retry_count' = r
         /\ calls' = calls + 1
         /\ topic_idx' = topic_idx
    ELSE /\ retry_count' = 0
         /\ calls' = 0
         /\ topic_idx' = topic_idx + 1

\* AfterRetry leaving the for loop when a topic runs out of attempts
AfterRetryGiveUpBatch(r) ==
    IF r < max_retries
    THEN /\ retry_count' = r
         /\ calls' = calls + 1
         /\ topic_idx' = topic_idx
    ELSE /\ retry_count' = 0
         /\ calls' = 0
         /\ topic_idx' = Len(topics) + 1

\* the while test after an iteration that left retry_count at r: stay on the
\* topic, or go on to the next one
AfterRetry(r) ==
    IF r < max_retries
    THEN /\ retry_count' = r
         /\ calls' = calls + 1
         /\ topic_idx' = topic_idx
    ELSE /\ retry_count' = 0
         /\ calls' = 0
         /\ topic_idx' = topic_idx + 1

\* the accepting branch without its break: the while loop goes on with the
\* same topic and the same retry_count
BreakMissing ==
    /\ topic_idx' = topic_idx
    /\ retry_count' = retry_count
    /\ calls' = calls + 1

\* line 153: break leaves the while loop, the for loop takes the next topic
\* and line 123 resets retry_count
BreakToNextTopic ==
    /\ topic_idx' = topic_idx + 1
    /\ retry_count' = 0
    /\ calls' = 0

\* lines 126-130: the call gave no content
attempt_no_content ==
    /\ InLoop
    /\ \E outcome \in Outcomes :
        _api_post(topics[topic_idx], outcome).content = None
    /\ AfterRetry(retry_count + 1)
    /\ total_calls' = total_calls + 1
    \* line 130: continue, the sleep of line 158 is skipped
    /\ slept' = FALSE
    /\ UNCHANGED <<pc, existing_posts, batch_time, topics, results, cleaned, origin,
                   topic_vars, dup_vars, run_vars, san_vars, db_vars>>

\* lines 126-153: the candidate is not a duplicate and is appended
attempt_accept ==
    /\ InLoop
    /\ \E outcome \in Outcomes :
        LET topic == topics[topic_idx]
            r == _api_post(topic, outcome)
            content == Sanitized[r.content]
            url == IF r.source_url = None THEN _get_fallback_source(topic) ELSE r.source_url
        IN  /\ r.content # None
            /\ _is_duplicate_content(content, existing_posts \o results) = "False"
            /\ results' = Append(results,
                                 [title |-> topic,
                                  content |-> _append_source_footer(content, url),
                                  source_url |-> url,
                                  batch_timestamp |-> batch_time,
                                  image_url |-> r.image_url])
            /\ cleaned' = Append(cleaned, content)
    /\ origin' = Append(origin, topic_idx)
    /\ BreakToNextTopic
    /\ total_calls' = total_calls + 1
    \* line 153: break, the sleep of line 158 is skipped
    /\ slept' = FALSE
    /\ UNCHANGED <<pc, existing_posts, batch_time, topics, topic_vars, dup_vars, run_vars, san_vars, db_vars>>

\* lines 126-158: the candidate is a duplicate
attempt_duplicate ==
    /\ InLoop
    /\ \E outcome \in Outcomes :
        LET r == _api_post(topics[topic_idx], outcome) IN
        /\ r.content # None
        /\ _is_duplicate_content(Sanitized[r.content], existing_posts \o results) = "True"
    /\ AfterRetry(retry_count + 1)
    /\ total_calls' = total_calls + 1
    \* line 158
    /\ slept' = TRUE
    /\ UNCHANGED <<pc, existing_posts, batch_time, topics, results, cleaned, origin,
                   topic_vars, dup_vars, run_vars, san_vars, db_vars>>

\* lines 126-137: the similarity's division raises ZeroDivisionError, which
\* nothing in generate_posts catches
attempt_raise ==
    /\ InLoop
    /\ \E outcome \in Outcomes :
        LET r == _api_post(topics[topic_idx], outcome) IN
        /\ r.content # None
        /\ _is_duplicate_content(Sanitized[r.content], existing_posts \o results)
               = "ZeroDivisionError"
    /\ pc' = "raised"
    /\ calls' = calls + 1
    /\ total_calls' = total_calls + 1
    /\ slept' = FALSE
    /\ UNCHANGED <<existing_posts, batch_time, topics, topic_idx, retry_count, results, cleaned,
                   origin, topic_vars, dup_vars, run_vars, san_vars, db_vars>>

\* line 160
generate_posts_return ==
    /\ pc = "loop"
    /\ topic_idx > Len(topics)
    /\ pc' = "returned"
    /\ UNCHANGED <<existing_posts, batch_time, topics, topic_idx, retry_count, results, cleaned,
                   calls, total_calls, slept, origin, topic_vars, dup_vars, run_vars, san_vars, db_vars>>

Next ==
    \/ generate_posts_begin
    \/ attempt_no_content
    \/ attempt_accept
    \/ attempt_duplicate
    \/ attempt_raise
    \/ generate_posts_return

Spec == Init /\ [][Next]_vars

(***************************************************************************)
(* A generation run: the /generate-posts route or the scheduled job calls  *)
(* generate_posts and commits what it returns.                             *)
(***************************************************************************)
\* the recent posts of a database that holds some
StoredChoices == {w \in ExistingChoices : w # <<>>}

InitRuns ==
    /\ pc = "idle"
    /\ entry = "none"
    /\ stored \in StoredChoices
    /\ saved = <<>>
    /\ existing_posts = <<>>
    /\ batch_time = [week |-> 0, weekday |-> 0]
    /\ topics = <<>>
    /\ topic_idx = 0
    /\ retry_count = 0
    /\ results = <<>>
    /\ cleaned = <<>>
    /\ calls = 0
    /\ total_calls = 0
    /\ slept = FALSE
    /\ origin = <<>>
    /\ selections = <<>>
    /\ dup_new = <<>>
    /\ dup_existing = <<>>
    /\ dup_result = "none"
    /\ SanIdle
    /\ DbIdle

\* main.py lines 56-62: the recent posts are read and handed to generate_posts
route_generate_posts ==
    /\ pc = "idle"
    /\ entry' = "route"
    /\ existing_posts' = stored
    /\ pc' = "start"
    /\ UNCHANGED <<batch_time, topics, topic_idx, retry_count, results, cleaned, calls,
                   total_calls, slept, origin, stored, saved, topic_vars, dup_vars, san_vars,
                   db_vars>>

\* run_scheduler.py line 30: generate_posts() is called without an argument,
\* and line 116 of generate_posts makes existing_posts the empty list
scheduled_generate ==
    /\ pc = "idle"
    /\ entry' = "scheduler"
    /\ existing_posts' = <<>>
    /\ pc' = "start"
    /\ UNCHANGED <<batch_time, topics, topic_idx, retry_count, results, cleaned, calls,
                   total_calls, slept, origin, stored, saved, topic_vars, dup_vars, san_vars,
                   db_vars>>

\* main.py lines 64-72: nothing is saved for an empty batch, otherwise every
\* post is added and committed
route_commit ==
    /\ pc = "returned"
    /\ entry = "route"
    /\ saved' = results
    /\ pc' = "done"
    /\ UNCHANGED <<existing_posts, batch_time, topics, topic_idx, retry_count, results, cleaned,
                   calls, total_calls, slept, origin, entry, stored, topic_vars, dup_vars,
                   san_vars, db_vars>>

\* run_scheduler.py lines 32-41
scheduled_commit ==
    /\ pc = "returned"
    /\ entry = "scheduler"
    /\ saved' = results
    /\ pc' = "done"
    /\ UNCHANGED <<existing_posts, batch_time, topics, topic_idx, retry_count, results, cleaned,
                   calls, total_calls, slept, origin, entry, stored, topic_vars, dup_vars,
                   san_vars, db_vars>>

\* main.py lines 83-86: the exception of generate_posts is caught, the session
\* rolled back and an HTTP 500 reported; nothing is saved
route_rollback ==
    /\ pc = "raised"
    /\ entry = "route"
    /\ pc' = "failed"
    /\ UNCHANGED <<existing_posts, batch_time, topics, topic_idx, retry_count, results, cleaned,
                   calls, total_calls, slept, origin, run_vars, topic_vars, dup_vars, san_vars,
                   db_vars>>

NextRuns ==
    \/ route_generate_posts
    \/ scheduled_generate
    \/ Next
    \/ route_commit
    \/ scheduled_commit
    \/ route_rollback

SpecRuns == InitRuns /\ [][NextRuns]_vars

(***************************************************************************)
(* Topic selection alone: two calls of _weekly_topics, each with its own   *)
(* batch time and its own trending response.                               *)
(***************************************************************************)
RECURSIVE SeqsUpTo(_, _)
SeqsUpTo(S, n) ==
    IF n = 0 THEN {<<>>}
    ELSE LET shorter == SeqsUpTo(S, n - 1)
         IN  shorter \cup {Append(q, x) : q \in {r \in shorter : Len(r) = n - 1}, x \in S}

\* lines of a trending response: a fresh topic, a line that spells a pillar,
\* a line too short to be kept
TrendingLines == {TrendingLine(21, 30), TrendingLine(12, 40), TrendingLine(23, 8)}

\* a response with more lines than are kept
LongResponse ==
    <<TrendingLine(21, 30), TrendingLine(22, 25), TrendingLine(23, 8), TrendingLine(24, 31),
      TrendingLine(25, 32), TrendingLine(26, 33), TrendingLine(27, 34)>>

TopicResponses ==
    {[failed |-> TRUE, lines |-> <<>>], [failed |-> FALSE, lines |-> LongResponse]}
        \cup {[failed |-> FALSE, lines |-> l] : l \in SeqsUpTo(TrendingLines, MaxLines)}

Selection(bt, response) ==
    [batch_time |-> bt,
     trending |-> _get_trending_topics(response),
     topics |-> _weekly_topics(bt, response)]

InitTopics ==
    /\ selections = <<>>
    /\ pc = "start"
    /\ existing_posts = <<>>
    /\ batch_time = [week |-> 0, weekday |-> 0]
    /\ topics = <<>>
    /\ topic_idx = 0
    /\ retry_count = 0
    /\ results = <<>>
    /\ cleaned = <<>>
    /\ calls = 0
    /\ total_calls = 0
    /\ slept = FALSE
    /\ origin = <<>>
    /\ dup_new = <<>>
    /\ dup_existing = <<>>
    /\ dup_result = "none"
    /\ RunIdle
    /\ SanIdle
    /\ DbIdle

weekly_topics_first ==
    /\ selections = <<>>
    /\ \E bt \in BatchTimes, response \in TopicResponses :
        selections' = <<Selection(bt, response)>>
    /\ UNCHANGED <<gen_vars, dup_vars, run_vars, san_vars, db_vars>>

weekly_topics_again ==
    /\ Len(selections) = 1
    /\ \E bt \in BatchTimes, response \in TopicResponses :
        selections' = Append(selections, Selection(bt, response))
    /\ UNCHANGED <<gen_vars, dup_vars, run_vars, san_vars, db_vars>>

NextTopics == weekly_topics_first \/ weekly_topics_again

SpecTopics == InitTopics /\ [][NextTopics]_vars

(***************************************************************************)
(* _is_duplicate_content alone                                             *)
(***************************************************************************)
SevenWords == <<"a", " ", "c", " ", "d", " ", "n", " ", "1", " ", "2", " ", "a", "a">>
DupContents ==
    {<<>>,
     <<" ", "\n">>,
     <<"a", " ", "c", " ", "d">>,
     <<"A", "\n", "c", " ", " ", "d">>,
     <<"d", " ", "c", " ", "a", " ", "a">>,
     <<"a", " ", "c", " ", "d", " ", "n">>,
     <<"1", " ", "2">>,
     SevenWords,
     SevenWords \o <<" ", "a", "c", " ", "a", "d", " ", "a", "n">>}

InitDup ==
    /\ dup_new \in DupContents
    /\ dup_existing \in SeqsUpTo({[content |-> c] : c \in DupContents}, MaxDupExisting)
    /\ dup_result = "none"
    /\ selections = <<>>
    /\ pc = "start"
    /\ existing_posts = <<>>
    /\ batch_time = [week |-> 0, weekday |-> 0]
    /\ topics = <<>>
    /\ topic_idx = 0
    /\ retry_count = 0
    /\ results = <<>>
    /\ cleaned = <<>>
    /\ calls = 0
    /\ total_calls = 0
    /\ slept = FALSE
    /\ origin = <<>>
    /\ RunIdle
    /\ SanIdle
    /\ DbIdle

is_duplicate_call ==
    /\ dup_result = "none"
    /\ dup_result' = _is_duplicate_content(dup_new, dup_existing)
    /\ UNCHANGED <<dup_new, dup_existing, gen_vars, topic_vars, run_vars, san_vars, db_vars>>

NextDup == is_duplicate_call

SpecDup == InitDup /\ [][NextDup]_vars

(***************************************************************************)
(* The sanitizer alone: one of its two functions applied to a text, and    *)
(* then to its own output.                                                 *)
(***************************************************************************)
MaxSanLen == 5

SanAtoms == {"[", "1", "]", "*", " ", "https://"}

\* longer texts: nested citations, a citation inside emphasis, a URL between
\* words, doubled backslashes, a post wrapped in JSON
SanLonger ==
    {<<"[", "[", "1", "]", "1", "]">>,
     <<"(", "(", "1", ")", "2", ")">>,
     <<"[", "*", "1", "*", "]">>,
     <<"a", " ", "https://", "www.", "st.com", "/x", " ", "c", " ", "[", "1", ",", " ", "2", "]">>,
     <<"\\", "\\", "\\", "\\">>,
     <<"{", "\"", "post", "\"", ":", "\"", LongWord, " ", "(", "1", ")", "\"", "}">>,
     <<"*", "*", "a", "*", "*", " ", Backtick, "c", Backtick>>}

SanInputs == SeqsUpTo(SanAtoms, MaxSanLen) \cup SanLonger

SanFunctions == {"_ensure_clean_content", "_clean_content"}

Sanitize(fn, text) ==
    IF fn = "_clean_content" THEN _clean_content(text) ELSE _ensure_clean_content(text)

InitSan ==
    /\ san_fn \in SanFunctions
    /\ san_input \in SanInputs
    /\ san_output = <<>>
    /\ san_again = <<>>
    /\ san_pass = 0
    /\ selections = <<>>
    /\ pc = "start"
    /\ existing_posts = <<>>
    /\ batch_time = [week |-> 0, weekday |-> 0]
    /\ topics = <<>>
    /\ topic_idx = 0
    /\ retry_count = 0
    /\ results = <<>>
    /\ cleaned = <<>>
    /\ calls = 0
    /\ total_calls = 0
    /\ slept = FALSE
    /\ origin = <<>>
    /\ dup_new = <<>>
    /\ dup_existing = <<>>
    /\ dup_result = "none"
    /\ RunIdle
    /\ DbIdle

sanitize_call ==
    /\ san_pass = 0
    /\ san_output' = Sanitize(san_fn, san_input)
    /\ san_pass' = 1
    /\ UNCHANGED <<san_fn, san_input, san_again, gen_vars, topic_vars, dup_vars, run_vars, db_vars>>

sanitize_again ==
    /\ san_pass = 1
    /\ san_again' = Sanitize(san_fn, san_output)
    /\ san_pass' = 2
    /\ UNCHANGED <<san_fn, san_input, san_output, gen_vars, topic_vars, dup_vars, run_vars, db_vars>>

NextSan == sanitize_call \/ sanitize_again

SpecSan == InitSan /\ [][NextSan]_vars

(***************************************************************************)
(* approve_post of the persistence layer.  A document is [id, batch,       *)
(* is_approved]; a call is find_one, update_one, delete_many, with an      *)
(* await before each, so that other calls can run in between.              *)
(***************************************************************************)
MaxDocs == 3
MaxCallers == 2

\* the batch_timestamp of a document that has none
NoBatch == 0
Batches == {NoBatch, 1, 2}

\* ids a caller can send: those of the documents, one that is stored nowhere,
\* and 0 for a string that is not an ObjectId
InvalidId == 0
PostIds == 0..(MaxDocs + 1)

Document(i, b, a) == [id |-> i, batch |-> b, is_approved |-> a]

\* the collections with documents 1..n, n <= MaxDocs
Collections ==
    UNION {{{Document(i, f[i][1], f[i][2]) : i \in 1..n} :
                f \in [1..n -> Batches \X BOOLEAN]} : n \in 0..MaxDocs}

IdleRequest == [pc |-> "idle", post_id |-> InvalidId, batch_ts |-> NoBatch, result |-> "none",
                before |-> {}]

\* col.find_one({"_id": oid})
FindOne(coll, oid) == {d \in coll : d.id = oid}

\* col.update_one({"_id": oid}, {"$set": {"is_approved": True}})
UpdateOne(coll, oid) ==
    {IF d.id = oid THEN Document(d.id, d.batch, TRUE) ELSE d : d \in coll}

\* the filter of delete_many without its is_approved condition
SiblingsAnyApproval(coll, oid, batch_ts) ==
    {d \in coll : d.batch = batch_ts /\ d.id # oid}

\* the documents the filter of delete_many matches
Siblings(coll, oid, batch_ts) ==
    {d \in coll : d.batch = batch_ts /\ d.id # oid /\ ~d.is_approved}

InitApproveWith(colls, n) ==
    /\ collection \in colls
    /\ requests = [c \in 1..n |-> IdleRequest]
    /\ selections = <<>>
    /\ pc = "start"
    /\ existing_posts = <<>>
    /\ batch_time = [week |-> 0, weekday |-> 0]
    /\ topics = <<>>
    /\ topic_idx = 0
    /\ retry_count = 0
    /\ results = <<>>
    /\ cleaned = <<>>
    /\ calls = 0
    /\ total_calls = 0
    /\ slept = FALSE
    /\ origin = <<>>
    /\ dup_new = <<>>
    /\ dup_existing = <<>>
    /\ dup_result = "none"
    /\ RunIdle
    /\ SanIdle

\* one call at a time, any collection
InitApprove == InitApproveWith(Collections, 1)

\* concurrent calls, every post unapproved at the start
InitApproveConcurrent ==
    InitApproveWith({coll \in Collections : \A d \in coll : ~d.is_approved}, MaxCallers)

\* lines 101-108: the id is parsed and the post looked up
approve_find(c) ==
    /\ requests[c].pc = "idle"
    /\ \E post_id \in PostIds :
        LET post == FindOne(collection, post_id) IN
        requests' = [requests EXCEPT ![c] =
            IF post_id = InvalidId \/ post = {}
            THEN [pc |-> "done", post_id |-> post_id, batch_ts |-> NoBatch,
                  result |-> "False", before |-> collection]
            ELSE [pc |-> "found", post_id |-> post_id,
                  batch_ts |-> (CHOOSE d \in post : TRUE).batch,
                  result |-> "none", before |-> collection]]
    /\ UNCHANGED <<collection, gen_vars, topic_vars, dup_vars, run_vars, san_vars>>

\* line 110
approve_update(c) ==
    /\ requests[c].pc = "found"
    /\ collection' = UpdateOne(collection, requests[c].post_id)
    /\ requests' = [requests EXCEPT ![c].pc = "updated"]
    /\ UNCHANGED <<gen_vars, topic_vars, dup_vars, run_vars, san_vars>>

\* lines 111-117
approve_delete(c) ==
    /\ requests[c].pc = "updated"
    /\ collection' =
          IF requests[c].batch_ts # NoBatch
          THEN collection \ Siblings(collection, requests[c].post_id, requests[c].batch_ts)
          ELSE collection
    /\ requests' = [requests EXCEPT ![c].pc = "done", ![c].result = "True"]
    /\ UNCHANGED <<gen_vars, topic_vars, dup_vars, run_vars, san_vars>>

\* the caller has its answer and may call again
approve_return(c) ==
    /\ requests[c].pc = "done"
    /\ requests' = [requests EXCEPT ![c] = IdleRequest]
    /\ UNCHANGED <<collection, gen_vars, topic_vars, dup_vars, run_vars, san_vars>>

NextApprove ==
    \E c \in 1..Len(requests) :
        \/ approve_find(c)
        \/ approve_update(c)
        \/ approve_delete(c)
        \/ approve_return(c)

SpecApprove == InitApprove /\ [][NextApprove]_vars

SpecApproveConcurrent == InitApproveConcurrent /\ [][NextApprove]_vars

(***************************************************************************)
(* Properties                                                              *)
(***************************************************************************)
\* |a & b| / |a | b| > 0.7 for two token sets with a non-empty union
Jaccard07(a, b) == 10 * Cardinality(a \cap b) > 7 * Cardinality(a \cup b)

\* C1: generation is invoked at most 3 times for a topic: at the head of the
\* loop the attempts made for the current topic are its retry count and fewer
\* than 3; a run has at most 5 topics and makes at most 15 calls, at most 3 per
\* topic reached; and the run can always take a step until it returns or raises.
C1_AttemptsBounded ==
    /\ calls <= 3
    /\ Len(topics) <= 5
    /\ total_calls <= 15
    /\ pc = "loop" => /\ calls = retry_count
                      /\ retry_count < 3
                      /\ total_calls <= 3 * (topic_idx - 1) + calls
    /\ pc \in {"start", "loop"} => ENABLED Next

\* C1 witness: a run of five topics that were all given up after 3 calls each
C1_Witness == pc = "returned" /\ Len(topics) = 5 /\ total_calls = 15 /\ results = <<>>

\* C2: no post of the batch has token-set Jaccard similarity above 0.7 between
\* its sanitized content and the content of an existing post.
C2_NotDuplicateOfExisting ==
    \A k \in 1..Len(results), e \in 1..Len(existing_posts) :
        ~Jaccard07(Words(cleaned[k]), Words(existing_posts[e].content))

\* C2 witness: a returned batch with a post that shares words with an existing
\* post without being its duplicate, and a topic that gave no post
C2_Witness ==
    /\ pc = "returned"
    /\ Len(results) < Len(topics)
    /\ \E k \in 1..Len(results), e \in 1..Len(existing_posts) :
        Words(cleaned[k]) \cap Words(existing_posts[e].content) # {}

\* C3: no two posts of a batch have sanitized texts with Jaccard similarity
\* above 0.7 (a later candidate that duplicates an accepted post is rejected).
C3_NoDuplicatesWithinBatch ==
    pc = "returned" =>
        \A i, j \in 1..Len(results) :
            (i < j /\ Words(cleaned[i]) \cup Words(cleaned[j]) # {})
                => ~Jaccard07(Words(cleaned[i]), Words(cleaned[j]))

\* C4: _is_duplicate_content returns true exactly when some existing post has
\* Jaccard similarity above 0.7 with the candidate and false otherwise; content
\* compared against itself is a duplicate.
C4_DuplicateIffSimilar ==
    dup_result # "none" =>
        /\ dup_result \in {"True", "False"}
        /\ dup_result = "True" <=>
              \E k \in 1..Len(dup_existing) :
                  /\ Words(dup_new) \cup Words(dup_existing[k].content) # {}
                  /\ Jaccard07(Words(dup_new), Words(dup_existing[k].content))
        /\ (\E k \in 1..Len(dup_existing) : dup_existing[k].content = dup_new)
              => dup_result = "True"

\* C5: a candidate without tokens against an existing post without tokens is
\* not a duplicate and raises nothing: a run of generate_posts never ends in
\* the division's error.
C5_EmptyUnionNotFatal == pc # "raised"

\* C6: failures of the generation call are never fatal: a run raises only when
\* an existing post has no tokens (the empty union of the similarity), never
\* because calls failed; a run that returns has made exactly 3 calls for every
\* topic it dropped and at least one for every topic it accepted, so every
\* topic was processed; and a run whose calls all failed returns the empty list
\* after 3 calls per topic.
C6_FailuresNotFatal ==
    /\ pc = "raised" => \E e \in 1..Len(existing_posts) : Words(existing_posts[e].content) = {}
    /\ pc = "returned" =>
        /\ Len(results) <= Len(topics)
        /\ total_calls >= Len(results) + 3 * (Len(topics) - Len(results))
        /\ total_calls <= 3 * Len(topics)
        /\ results = <<>> => total_calls = 3 * Len(topics)

\* C6 witness: nothing to be a duplicate of, every call failed or was empty,
\* and the run returned the empty list
C6_Witness ==
    /\ pc = "returned"
    /\ existing_posts = <<>>
    /\ results = <<>>
    /\ total_calls = 3 * Len(topics)

\* the positions of the marker Source: in a text
SourceMarkers(content) ==
    {i \in 1..Len(content) : content[i] = "Source" /\ At(content, i + 1) = ":"}

\* C7: the content of every post of the batch has exactly one Source: marker,
\* in its final line, which is the footer Source: <source_url> preceded by a
\* blank line.
C7_SingleFinalSourceLine ==
    pc = "returned" =>
        \A k \in 1..Len(results) :
            LET content == results[k].content
                footer == <<"\n", "\n", "Source", ":", " ">> \o results[k].source_url
                n == Len(content)
            IN  /\ Cardinality(SourceMarkers(content)) = 1
                /\ n >= Len(footer)
                /\ SubSeq(content, n - Len(footer) + 1, n) = footer

FallbackUrls == {EnergyUrl, IeeeUrl, MathworksUrl, SaeUrl}

\* C8: every post of the batch has a non-empty source_url that the credibility
\* check accepts or that is the fallback URL of the post's topic.
C8_SourceCredibleOrFallback ==
    \A k \in 1..Len(results) :
        /\ results[k].source_url # None
        /\ \/ _is_credible_source(results[k].source_url)
           \/ results[k].source_url = _get_fallback_source(results[k].title)
        /\ results[k].source_url \in FallbackUrls \cup {StUrl}

\* C8 witness: a batch with a post that kept the credible citation listed after
\* a citation that is not credible, and a post that got its topic's fallback
C8_Witness ==
    /\ pc = "returned"
    /\ \E k \in 1..Len(results) : results[k].source_url = StUrl
    /\ \E k \in 1..Len(results) :
        /\ results[k].source_url = _get_fallback_source(results[k].title)
        /\ results[k].source_url # StUrl

\* C9: the topics of a selection are pairwise distinct.
C9_TopicsDistinct ==
    \A n \in 1..Len(selections) :
        \A i, j \in 1..Len(selections[n].topics) :
            i # j => selections[n].topics[i] # selections[n].topics[j]

SameWeek == Len(selections) = 2 /\ selections[1].batch_time.week = selections[2].batch_time.week

\* the topics of a selection that come from the shuffled pillars
CorePart(sel) ==
    SubSeq(sel.topics, Len(Take(sel.trending, TrendingShare)) + 1, Len(sel.topics))

IsPrefix(a, b) == Len(a) <= Len(b) /\ SubSeq(b, 1, Len(a)) = a

\* C10 as claimed: two selections in the same ISO week are the identical list.
C10_SameWeekSameTopics == SameWeek => selections[1].topics = selections[2].topics

\* C10 as amended: two selections in the same ISO week draw their pillars from
\* the same shuffled order, and they are the identical list when the trending
\* collaborator returned the same topics to both.
C10_SameWeekSameCore ==
    SameWeek =>
        /\ \/ IsPrefix(CorePart(selections[1]), CorePart(selections[2]))
           \/ IsPrefix(CorePart(selections[2]), CorePart(selections[1]))
        /\ selections[1].trending = selections[2].trending
              => selections[1].topics = selections[2].topics

\* C10 witness: two selections in the same week on different days, whose
\* trending topics differ
C10_Witness ==
    /\ SameWeek
    /\ selections[1].batch_time.weekday # selections[2].batch_time.weekday
    /\ selections[1].trending # selections[2].trending
    /\ selections[1].topics # selections[2].topics

\* C11: the sanitizer is idempotent: a pass over its own output changes nothing.
C11_SanitizerIdempotent == san_pass = 2 => san_again = san_output

\* a bracketed or parenthesized numeric citation opens at position i
CitationAt(s, i) == MatchBracketCitation(s, i) # 0 \/ MatchParenCitation(s, i) # 0

\* C12: the output of the sanitizer has no bracketed or parenthesized numeric
\* citation, no http:// or https:// token and no markdown emphasis marker.
C12_OutputClean ==
    san_pass >= 1 =>
        \A i \in 1..Len(san_output) :
            /\ ~CitationAt(san_output, i)
            /\ san_output[i] \notin SchemeAtoms
            /\ san_output[i] \notin {"*", Backtick}

\* C13: whichever entry point started the run, no post it committed has
\* Jaccard similarity above 0.7 between its sanitized content and the content
\* of a post stored in the recent window.
C13_RunsDedupAgainstHistory ==
    pc = "done" =>
        \A k \in 1..Len(saved), e \in 1..Len(stored) :
            ~Jaccard07(Words(cleaned[k]), Words(stored[e].content))

\* C14: when the loop is about to make the first generation call for a topic
\* after the first, the iteration that ended the topic before it ran the sleep.
C14_SleepBetweenTopics ==
    (pc = "loop" /\ topic_idx > 1 /\ topic_idx <= Len(topics) /\ calls = 0) => slept

\* C15: topics are processed one at a time in selection order: every accepted
\* post was generated for a topic before the current one, no topic gave two
\* posts, the batch lists the posts in the order of their topics, each earlier
\* topic was accepted or given up after 3 calls before the current one started,
\* every title is its topic and every post carries the run's batch time.
C15_SequentialInOrder ==
    /\ Len(origin) = Len(results)
    /\ \A k \in 1..Len(results) :
        /\ origin[k] \in 1..Len(topics)
        /\ pc = "loop" => origin[k] < topic_idx
        /\ results[k].title = topics[origin[k]]
        /\ results[k].batch_timestamp = batch_time
    /\ \A i, j \in 1..Len(origin) : i < j => origin[i] < origin[j]
    /\ pc = "loop" =>
        /\ calls <= total_calls
        /\ total_calls - calls >= Len(results) + 3 * ((topic_idx - 1) - Len(results))
        /\ total_calls - calls <= 3 * (topic_idx - 1)

\* C15 witness: a returned batch of two posts, for the first and the third
\* topic, the second topic having been given up
C15_Witness ==
    /\ pc = "returned"
    /\ origin = <<1, 3>>
    /\ total_calls >= 5

\* the documents a call for post oid of batch batch_ts must leave alone: those
\* of other batches and those already approved
Bystanders(coll, oid, batch_ts) ==
    {d \in coll : d.id # oid /\ (d.batch # batch_ts \/ d.is_approved)}

\* C16: when a call of approve_post has returned true, the post existed and
\* is stored approved, no other unapproved post of its batch is stored, and
\* the posts of other batches and the approved posts are as they were; when it
\* has returned false, the id named no post and the collection is as it was.
C16_ApproveDiscardsSiblings ==
    \A c \in 1..Len(requests) :
        LET r == requests[c] IN
        r.pc = "done" =>
            IF r.result = "True"
            THEN /\ FindOne(r.before, r.post_id) # {}
                 /\ Document(r.post_id, r.batch_ts, TRUE) \in collection
                 /\ collection \subseteq UpdateOne(r.before, r.post_id)
                 /\ Bystanders(collection, r.post_id, r.batch_ts)
                        = Bystanders(r.before, r.post_id, r.batch_ts)
                 /\ IF r.batch_ts # NoBatch
                    THEN \A d \in collection :
                            (d.batch = r.batch_ts /\ d.id # r.post_id) => d.is_approved
                    ELSE collection = UpdateOne(r.before, r.post_id)
            ELSE /\ r.result = "False"
                 /\ collection = r.before
                 /\ r.post_id = InvalidId \/ FindOne(r.before, r.post_id) = {}

\* C16 witness: a successful call that deleted an unapproved sibling and kept
\* an approved one
C16_Witness ==
    \E c \in 1..Len(requests) :
        LET r == requests[c] IN
        /\ r.pc = "done"
        /\ r.result = "True"
        /\ r.batch_ts # NoBatch
        /\ \E d \in r.before \ collection : d.batch = r.batch_ts /\ d.id # r.post_id
        /\ \E d \in collection : d.batch = r.batch_ts /\ d.id # r.post_id /\ d.is_approved

\* C17: with every post unapproved at the start and calls interleaved, once no
\* call is in flight no batch has more than one approved post, and a call that
\* returned true named a post that is still stored.
C17_ConcurrentApproveSafe ==
    /\ (\A c \in 1..Len(requests) : requests[c].pc \in {"idle", "done"}) =>
            \A b \in Batches \ {NoBatch} :
                Cardinality({d \in collection : d.batch = b /\ d.is_approved}) <= 1
    /\ \A c \in 1..Len(requests) :
            (requests[c].pc = "done" /\ requests[c].result = "True")
                => FindOne(collection, requests[c].post_id) # {}

====
